---------------------------- MODULE Spec2Model ----------------------------
(***************************************************************************)
(* brainfrick-rs: the optimizing compiler (src/src/compiler.rs), the       *)
(* instruction set (src/src/instruction.rs), the tape machine              *)
(* (src/src/vm.rs) and the buffered test I/O adapter (src/src/io.rs).      *)
(*                                                                         *)
(* Positions (in_ptr, d_ptr, loop_map keys) are 0-based as in the code;    *)
(* TLA+ sequences are 1-based, so instruction p is instructions[p + 1].    *)
(* The tape Box<[u8; MEM]> is kept sparsely: a function whose domain is    *)
(* the set of cells holding a non-zero byte; every other cell reads 0.     *)
(* Rust's arithmetic overflow panics in a debug build and wraps in a       *)
(* release build: where an overflow can happen both outcomes are offered.  *)
(***************************************************************************)
EXTENDS Integers, Sequences, FiniteSets, TLC

VARIABLES
    src,            \* the source text handed to compile (a sequence of characters)
    test_input,     \* the text handed to TestIO::new
    pc,             \* "start" | "abort" | "run" | "done" | "panic" | "pass"
    stage,          \* what instructions holds: "compiled" (the Program of compile),
                    \* "raw" (the lexed sequence), "step" or "pass" (drawn by Init)
    instructions,   \* Program.instructions
    loop_map,       \* Program.loop_map
    data,           \* VM.data (sparse)
    in_ptr,         \* VM.in_ptr
    d_ptr,          \* VM.d_ptr
    input,          \* TestIO.input
    output,         \* TestIO.output
    fault,          \* the panic message, "" while there is none
    steps,          \* iterations of VM::run's loop executed so far
    saved,          \* an executor state kept for comparison: the outcome of the
                    \* run of the compiled Program, or the state a loop started in
    before,         \* the executor state before the last step, << >> if none
    history         \* the rewrite passes applied to instructions, each with its input

vars == << src, test_input, pc, stage, instructions, loop_map, data, in_ptr,
           d_ptr, input, output, fault, steps, saved, before, history >>

-----------------------------------------------------------------------------
(* Bounds of the model and constants of the program *)

MEM == 30000

WordBits == 64

MaxChars == 4

MaxFrags == 3

MaxSteps == 16

MaxInput == 2

MaxLoopSteps == 512

MaxPassFrags == 3

-----------------------------------------------------------------------------
(* instruction.rs: the Instruction enum *)

Shift(count) == [op |-> "Shift", count |-> count]

Alt(amount) == [op |-> "Alt", amount |-> amount]

Out == [op |-> "Out"]

In == [op |-> "In"]

Loop == [op |-> "Loop"]

End == [op |-> "End"]

NoOp == [op |-> "NoOp"]

Clear == [op |-> "Clear"]

Copy(mul, offset) == [op |-> "Copy", mul |-> mul, offset |-> offset]

IsShift(ins) == ins.op = "Shift"

IsAlt(ins) == ins.op = "Alt"

\* i16 and u8 arithmetic
InI16(x) == x >= -32768 /\ x <= 32767

WrapI16(x) == ((x + 32768) % 65536) - 32768

AsU8(x) == x % 256

\* As try_from, with "." and "," exchanged
try_from_swapped(value) ==
    CASE value = ">" -> [ok |-> TRUE, val |-> Shift(1)]
      [] value = "<" -> [ok |-> TRUE, val |-> Shift(-1)]
      [] value = "+" -> [ok |-> TRUE, val |-> Alt(1)]
      [] value = "-" -> [ok |-> TRUE, val |-> Alt(-1)]
      [] value = "." -> [ok |-> TRUE, val |-> In]
      [] value = "," -> [ok |-> TRUE, val |-> Out]
      [] value = "[" -> [ok |-> TRUE, val |-> Loop]
      [] value = "]" -> [ok |-> TRUE, val |-> End]
      [] OTHER -> [ok |-> FALSE]

\* Instruction::try_from: Ok(instruction) or Err(())
try_from(value) ==
    CASE value = ">" -> [ok |-> TRUE, val |-> Shift(1)]
      [] value = "<" -> [ok |-> TRUE, val |-> Shift(-1)]
      [] value = "+" -> [ok |-> TRUE, val |-> Alt(1)]
      [] value = "-" -> [ok |-> TRUE, val |-> Alt(-1)]
      [] value = "." -> [ok |-> TRUE, val |-> Out]
      [] value = "," -> [ok |-> TRUE, val |-> In]
      [] value = "[" -> [ok |-> TRUE, val |-> Loop]
      [] value = "]" -> [ok |-> TRUE, val |-> End]
      [] OTHER -> [ok |-> FALSE]

-----------------------------------------------------------------------------
(* compiler.rs: lexing and the rewrite passes *)

\* compile, lines 46-50: src.chars().map(try_from).filter_map(Result::ok)
RECURSIVE Lex(_)
Lex(text) ==
    IF text = << >> THEN << >>
    ELSE LET r == try_from(Head(text))
         IN  (IF r.ok THEN << r.val >> ELSE << >>) \o Lex(Tail(text))

\* How many instructions at the front of s satisfy the peek pattern op
RECURSIVE PeekRun(_, _)
PeekRun(s, op) ==
    IF s # << >> /\ Head(s).op = op THEN 1 + PeekRun(Tail(s), op) ELSE 0

\* count += *more over a run of Alt, in i16; wrapping as a release build does
RECURSIVE SumAlt(_, _)
SumAlt(count, more) ==
    IF more = << >> THEN count
    ELSE SumAlt(WrapI16(count + Head(more).amount), Tail(more))

\* count += *more over a run of Shift, in isize
RECURSIVE SumShift(_, _)
SumShift(count, more) ==
    IF more = << >> THEN count
    ELSE SumShift(count + Head(more).count, Tail(more))

\* As contraction_optimizer, with "if let" for "while let": a Shift or Alt
\* takes in at most one instruction that follows it
RECURSIVE contraction_once(_)
contraction_once(ins) ==
    IF ins = << >> THEN << >>
    ELSE LET cur == Head(ins)
             rest == Tail(ins)
             n == IF rest # << >> /\ Head(rest).op = cur.op THEN 1 ELSE 0
         IN  CASE IsShift(cur) ->
                    << Shift(SumShift(cur.count, SubSeq(rest, 1, n))) >>
                    \o contraction_once(SubSeq(rest, n + 1, Len(rest)))
               [] IsAlt(cur) ->
                    << Alt(SumAlt(cur.amount, SubSeq(rest, 1, n))) >>
                    \o contraction_once(SubSeq(rest, n + 1, Len(rest)))
               [] OTHER -> << cur >> \o contraction_once(rest)

RECURSIVE contraction_optimizer(_)
contraction_optimizer(ins) ==
    IF ins = << >> THEN << >>
    ELSE LET cur == Head(ins)
             rest == Tail(ins)
         IN  CASE IsShift(cur) ->
                    LET n == PeekRun(rest, "Shift")
                    IN  << Shift(SumShift(cur.count, SubSeq(rest, 1, n))) >>
                        \o contraction_optimizer(SubSeq(rest, n + 1, Len(rest)))
               [] IsAlt(cur) ->
                    LET n == PeekRun(rest, "Alt")
                    IN  << Alt(SumAlt(cur.amount, SubSeq(rest, 1, n))) >>
                        \o contraction_optimizer(SubSeq(rest, n + 1, Len(rest)))
               [] OTHER -> << cur >> \o contraction_optimizer(rest)

\* The sum of the Alt amounts of s[i..j], not wrapped
RECURSIVE AltSum(_, _, _)
AltSum(s, i, j) == IF i > j THEN 0 ELSE s[i].amount + AltSum(s, i + 1, j)

\* A debug build panics in contraction_optimizer ("attempt to add with
\* overflow") when a partial sum of a run of Alt leaves i16
contraction_overflows(ins) ==
    \E i \in 1..Len(ins) : \E j \in i..Len(ins) :
        /\ \A k \in i..j : IsAlt(ins[k])
        /\ (i = 1 \/ ~IsAlt(ins[i - 1]))
        /\ ~InI16(AltSum(ins, i, j))

\* remove_n: drop up to the last n elements
remove_n(vec, n) ==
    SubSeq(vec, 1, IF Len(vec) >= n THEN Len(vec) - n ELSE 0)

Last(vec, n) == SubSeq(vec, Len(vec) - n + 1, Len(vec))

IsClearWindow(w) == w = << Loop, Alt(-1), End >>

\* As clear_loop_push, folding a loop around any single Alt
clear_loop_push_any_alt(out, instruction) ==
    LET pushed == Append(out, instruction)
        w == Last(pushed, 3)
    IN  IF Len(pushed) >= 3 /\ w[1] = Loop /\ IsAlt(w[2]) /\ w[3] = End
        THEN Append(remove_n(pushed, 3), Clear)
        ELSE pushed

\* One iteration of clear_loop_optimizer's loop
clear_loop_push(out, instruction) ==
    LET pushed == Append(out, instruction)
    IN  IF Len(pushed) >= 3 /\ IsClearWindow(Last(pushed, 3))
        THEN Append(remove_n(pushed, 3), Clear)
        ELSE pushed

RECURSIVE ClearLoopFold(_, _)
ClearLoopFold(out, ins) ==
    IF ins = << >> THEN out
    ELSE ClearLoopFold(clear_loop_push(out, Head(ins)), Tail(ins))

clear_loop_optimizer(ins) == ClearLoopFold(<< >>, ins)

\* [Loop, Alt(-1), Shift(off1), Alt(x), Shift(off2), End] if x > 0 && off1 == -off2
IsCopyWindowA(w) ==
    /\ w[1] = Loop /\ w[2] = Alt(-1) /\ IsShift(w[3]) /\ IsAlt(w[4])
    /\ IsShift(w[5]) /\ w[6] = End
    /\ w[4].amount > 0 /\ w[3].count = -w[5].count

\* [Loop, Shift(off1), Alt(x), Shift(off2), Alt(-1), End] if x > 0 && off1 == -off2
IsCopyWindowB(w) ==
    /\ w[1] = Loop /\ IsShift(w[2]) /\ IsAlt(w[3]) /\ IsShift(w[4])
    /\ w[5] = Alt(-1) /\ w[6] = End
    /\ w[3].amount > 0 /\ w[2].count = -w[4].count

\* As copy_loop_push, taking the offset of the second Shift
copy_loop_push_second_offset(out, instruction) ==
    LET pushed == Append(out, instruction)
        w == Last(pushed, 6)
    IN  CASE Len(pushed) >= 6 /\ IsCopyWindowA(w) ->
               remove_n(pushed, 6)
               \o << Copy(AsU8(w[4].amount), w[5].count), Clear >>
          [] Len(pushed) >= 6 /\ ~IsCopyWindowA(w) /\ IsCopyWindowB(w) ->
               remove_n(pushed, 6)
               \o << Copy(AsU8(w[3].amount), w[4].count), Clear >>
          [] OTHER -> pushed

\* One iteration of copy_loop_optimizer's loop
copy_loop_push(out, instruction) ==
    LET pushed == Append(out, instruction)
        w == Last(pushed, 6)
    IN  CASE Len(pushed) >= 6 /\ IsCopyWindowA(w) ->
               remove_n(pushed, 6)
               \o << Copy(AsU8(w[4].amount), w[3].count), Clear >>
          [] Len(pushed) >= 6 /\ ~IsCopyWindowA(w) /\ IsCopyWindowB(w) ->
               remove_n(pushed, 6)
               \o << Copy(AsU8(w[3].amount), w[2].count), Clear >>
          [] OTHER -> pushed

RECURSIVE CopyLoopFold(_, _)
CopyLoopFold(out, ins) ==
    IF ins = << >> THEN out
    ELSE CopyLoopFold(copy_loop_push(out, Head(ins)), Tail(ins))

copy_loop_optimizer(ins) == CopyLoopFold(<< >>, ins)

IsNoOp(instruction) ==
    instruction = NoOp \/ instruction = Alt(0) \/ instruction = Shift(0)

\* As no_op_reducer, without Shift(0) in the pattern
no_op_reducer_keeps_shift(ins) ==
    SelectSeq(ins, LAMBDA x : x # NoOp /\ x # Alt(0))

\* no_op_reducer: keep what does not match NoOp | Alt(0) | Shift(0)
no_op_reducer(ins) ==
    SelectSeq(ins, LAMBDA x : ~IsNoOp(x))

\* get_optimizers: the passes and their order
get_optimizers == << "Contraction", "NoOpReducer", "ClearLoop", "CopyLoop" >>

\* Optimizer::optimize: the enum dispatch
optimize(optimizer, ins) ==
    CASE optimizer = "Contraction" -> contraction_optimizer(ins)
      [] optimizer = "ClearLoop" -> clear_loop_optimizer(ins)
      [] optimizer = "CopyLoop" -> copy_loop_optimizer(ins)
      [] optimizer = "NoOpReducer" -> no_op_reducer(ins)

\* compile, lines 55-57: for optimizer in get_optimizers() { ... }
RECURSIVE Optimize(_, _)
Optimize(optimizers, ins) ==
    IF optimizers = << >> THEN ins
    ELSE Optimize(Tail(optimizers), optimize(Head(optimizers), ins))

EmptyMap == [k \in {} |-> 0]

\* HashMap::insert
Insert(map, key, value) ==
    [k \in DOMAIN map \cup {key} |-> IF k = key THEN value ELSE map[k]]

\* As MatchStep, popping the oldest open position instead of the latest
MatchStep_fifo(st, ptr, instruction) ==
    CASE st.unwrap -> st
      [] ~st.unwrap /\ instruction = Loop ->
           [st EXCEPT !.stack = Append(st.stack, ptr)]
      [] ~st.unwrap /\ instruction = End ->
           IF st.stack = << >> THEN [st EXCEPT !.unwrap = TRUE]
           ELSE LET open == st.stack[1]
                IN  [st EXCEPT !.stack = Tail(st.stack),
                               !.map = Insert(Insert(st.map, open, ptr), ptr, open)]
      [] OTHER -> st

\* As MatchStep, recording the pair under the open position only
MatchStep_open_only(st, ptr, instruction) ==
    CASE st.unwrap -> st
      [] ~st.unwrap /\ instruction = Loop ->
           [st EXCEPT !.stack = Append(st.stack, ptr)]
      [] ~st.unwrap /\ instruction = End ->
           IF st.stack = << >> THEN [st EXCEPT !.unwrap = TRUE]
           ELSE LET open == st.stack[Len(st.stack)]
                IN  [st EXCEPT !.stack = SubSeq(st.stack, 1, Len(st.stack) - 1),
                               !.map = Insert(st.map, open, ptr)]
      [] OTHER -> st

\* compile, lines 65-75: one iteration of the scan that fills loop_map.
\* st.unwrap: stack.pop().unwrap() met an empty stack and panicked.
MatchStep(st, ptr, instruction) ==
    CASE st.unwrap -> st
      [] ~st.unwrap /\ instruction = Loop ->
           [st EXCEPT !.stack = Append(st.stack, ptr)]
      [] ~st.unwrap /\ instruction = End ->
           IF st.stack = << >> THEN [st EXCEPT !.unwrap = TRUE]
           ELSE LET open == st.stack[Len(st.stack)]
                IN  [st EXCEPT !.stack = SubSeq(st.stack, 1, Len(st.stack) - 1),
                               !.map = Insert(Insert(st.map, open, ptr), ptr, open)]
      [] OTHER -> st

\* for (ptr, ins) in instructions.iter().enumerate(), ptr 0-based
RECURSIVE MatchLoops(_, _, _)
MatchLoops(ins, ptr, st) ==
    IF ptr >= Len(ins) THEN st
    ELSE MatchLoops(ins, ptr + 1, MatchStep(st, ptr, ins[ptr + 1]))

MatchStart == [unwrap |-> FALSE, stack |-> << >>, map |-> EmptyMap]

\* As CompileWith, without the unwrap and without the final assert_eq
CompileWith_unchecked(optimizers, text) ==
    LET lexed == Lex(text)
        optimized == Optimize(optimizers, lexed)
        m == MatchLoops(optimized, 0, MatchStart)
    IN  { [ok |-> TRUE, instructions |-> optimized, loop_map |-> m.map, panic |-> ""] }

\* compile with the given optimizer list: the set of outcomes, a Program or a panic
CompileWith(optimizers, text) ==
    LET lexed == Lex(text)
        optimized == Optimize(optimizers, lexed)
        m == MatchLoops(optimized, 0, MatchStart)
        Panic(msg) == [ok |-> FALSE, instructions |-> << >>, loop_map |-> EmptyMap,
                       panic |-> msg]
    IN  (IF "Contraction" \in {optimizers[i] : i \in DOMAIN optimizers}
            /\ contraction_overflows(lexed)
         THEN { Panic("attempt to add with overflow") } ELSE {})
        \cup
        { CASE m.unwrap -> Panic("unwrap on None")
            [] ~m.unwrap /\ Len(m.stack) # 0 -> Panic("assertion failed")
            [] OTHER -> [ok |-> TRUE, instructions |-> optimized, loop_map |-> m.map,
                         panic |-> ""] }

compile(text) == CompileWith(get_optimizers, text)

-----------------------------------------------------------------------------
(* vm.rs: the tape machine.  A vm is the record                             *)
(* [data, in_ptr, d_ptr, input, output, fault]                              *)

Cell(tape, i) == IF i \in DOMAIN tape THEN tape[i] ELSE 0

SetCell(tape, i, v) ==
    IF v = 0 THEN [j \in DOMAIN tape \ {i} |-> tape[j]]
    ELSE [j \in DOMAIN tape \cup {i} |-> IF j = i THEN v ELSE tape[j]]

RECURSIVE Pow2Mod(_, _)
Pow2Mod(n, m) == IF n = 0 THEN 1 % m ELSE (2 * Pow2Mod(n - 1, m)) % m

MathMod(x, m) == x % m

\* (x as usize) % m for an isize x: a negative x casts to 2^WordBits + x
UsizeMod(x, m) ==
    IF x >= 0 THEN x % m ELSE (Pow2Mod(WordBits, m) + (x % m)) % m

Fault(vm, msg) == [vm EXCEPT !.fault = msg]

Advance(vm) == [vm EXCEPT !.in_ptr = vm.in_ptr + 1]

\* As ExecShift, without the modulo
ExecShift_unwrapped(vm, count) ==
    Advance([vm EXCEPT !.d_ptr = vm.d_ptr + count])

ExecShift(vm, count) ==
    Advance([vm EXCEPT !.d_ptr = UsizeMod(vm.d_ptr + count, MEM)])

\* wrapping_add(amount as u8) / wrapping_sub(-amount as u8) / unreachable!()
ExecAlt(vm, amount) ==
    LET v == Cell(vm.data, vm.d_ptr)
    IN  CASE amount > 0 ->
               Advance([vm EXCEPT !.data =
                   SetCell(vm.data, vm.d_ptr, (v + AsU8(amount)) % 256)])
          [] amount < 0 ->
               Advance([vm EXCEPT !.data =
                   SetCell(vm.data, vm.d_ptr, (v - AsU8(WrapI16(-amount))) % 256)])
          [] OTHER -> Fault(vm, "unreachable")

\* -amount overflows i16: a debug build panics there
AltNegOverflows(amount) == amount < 0 /\ ~InI16(-amount)

ExecOut(vm) ==
    Advance([vm EXCEPT !.output = Append(vm.output, Cell(vm.data, vm.d_ptr))])

\* As ExecIn, taking the byte from the back of the queue
ExecIn_from_back(vm) ==
    IF vm.input = << >>
    THEN Fault(vm, "unwrap on None")
    ELSE Advance([vm EXCEPT !.data = SetCell(vm.data, vm.d_ptr,
                                              vm.input[Len(vm.input)]),
                            !.input = SubSeq(vm.input, 1, Len(vm.input) - 1)])

\* TestIO::getch: pop_front().unwrap()
ExecIn(vm) ==
    IF vm.input = << >>
    THEN Fault(vm, "unwrap on None")
    ELSE Advance([vm EXCEPT !.data = SetCell(vm.data, vm.d_ptr, Head(vm.input)),
                            !.input = Tail(vm.input)])

\* As ExecLoop, jumping to the matching End itself
ExecLoop_to_close(vm, map) ==
    IF Cell(vm.data, vm.d_ptr) = 0
    THEN [vm EXCEPT !.in_ptr = map[vm.in_ptr]]
    ELSE Advance(vm)

\* Instruction::Loop, lines 89-93; loop_map[&in_ptr] panics on a missing key
ExecLoop(vm, map) ==
    IF Cell(vm.data, vm.d_ptr) = 0
    THEN IF vm.in_ptr \in DOMAIN map
         THEN [vm EXCEPT !.in_ptr = map[vm.in_ptr] + 1]
         ELSE Fault(vm, "key not found")
    ELSE Advance(vm)

\* As ExecEnd, never jumping back
ExecEnd_falls_through(vm, map) == Advance(vm)

ExecEnd(vm, map) ==
    IF Cell(vm.data, vm.d_ptr) # 0
    THEN IF vm.in_ptr \in DOMAIN map
         THEN [vm EXCEPT !.in_ptr = map[vm.in_ptr] + 1]
         ELSE Fault(vm, "key not found")
    ELSE Advance(vm)

ExecClear(vm) == Advance([vm EXCEPT !.data = SetCell(vm.data, vm.d_ptr, 0)])

\* As ExecCopy, leaving the data pointer at the target cell
ExecCopy_moves_pointer(vm, mul, offset) ==
    LET target_d_ptr == UsizeMod(vm.d_ptr + offset, MEM)
        new_value == (Cell(vm.data, target_d_ptr)
                      + ((Cell(vm.data, vm.d_ptr) * mul) % 256)) % 256
    IN  Advance([vm EXCEPT !.data = SetCell(vm.data, target_d_ptr, new_value),
                           !.d_ptr = target_d_ptr])

ExecCopy(vm, mul, offset) ==
    LET target_d_ptr == UsizeMod(vm.d_ptr + offset, MEM)
        new_value == (Cell(vm.data, target_d_ptr)
                      + ((Cell(vm.data, vm.d_ptr) * mul) % 256)) % 256
    IN  Advance([vm EXCEPT !.data = SetCell(vm.data, target_d_ptr, new_value)])

\* One iteration of VM::run's loop on instruction ins: the possible outcomes
Exec(ins, map, vm) ==
    CASE ins.op = "Shift" -> { ExecShift(vm, ins.count) }
      [] ins.op = "Alt" ->
           { ExecAlt(vm, ins.amount) }
           \cup (IF AltNegOverflows(ins.amount)
                 THEN { Fault(vm, "attempt to negate with overflow") } ELSE {})
      [] ins.op = "Out" -> { ExecOut(vm) }
      [] ins.op = "In" -> { ExecIn(vm) }
      [] ins.op = "Loop" -> { ExecLoop(vm, map) }
      [] ins.op = "End" -> { ExecEnd(vm, map) }
      [] ins.op = "Clear" -> { ExecClear(vm) }
      [] ins.op = "Copy" -> { ExecCopy(vm, ins.mul, ins.offset) }
      [] ins.op = "NoOp" -> { Fault(vm, "NoOp found in program") }

\* The executor's state
VM == [data |-> data, in_ptr |-> in_ptr, d_ptr |-> d_ptr, input |-> input,
       output |-> output, fault |-> fault]

EmptyTape == [i \in {} |-> 0]

-----------------------------------------------------------------------------
(* The inputs the model draws from *)

\* The eight commands and "c", a character that is no command
SrcChars == { ">", "<", "+", "-", ".", ",", "[", "]", "c" }

\* "[-]", "[->+<]", "[>+<-]", "[-<+>]": the loops the fold passes look for
Idioms ==
    { << "[", "-", "]" >>,
      << "[", "-", ">", "+", "<", "]" >>,
      << "[", ">", "+", "<", "-", "]" >>,
      << "[", "-", "<", "+", ">", "]" >> }

Fragments == { << c >> : c \in SrcChars } \cup Idioms

\* Every concatenation of at most n of the fragments frags
RECURSIVE Concats(_, _)
Concats(frags, n) ==
    IF n = 0 THEN { << >> }
    ELSE LET shorter == Concats(frags, n - 1)
         IN  shorter \cup { s \o f : s \in shorter, f \in frags }

\* vm.rs test_bracket_matching and interpreter.rs test_parse
TestSources ==
    { << "[", "-", ">", ".", "<", "]", "[", "[", "]", "]", "[", "]" >>,
      << "c", "|", "o", "m", "&", "m", "e", "n", "t", " ", " ", " ", "a", " ",
         "[", "-", ">", "+", "<", "]", " ", "c", "o", "m", "m", "e", "n", "t" >> }

\* Every text of at most MaxChars characters, every concatenation of at most
\* MaxFrags characters and idioms, and the sources of the tests
Sources ==
    Concats({ << c >> : c \in SrcChars }, MaxChars)
    \cup Concats(Fragments, MaxFrags)
    \cup TestSources

InputBytes == { 0, 2, 255 }

Inputs == Concats({ << b >> : b \in InputBytes }, MaxInput)

\* The inputs a source is run on: no longer than the number of "," it holds,
\* so a source with no "," is run on the empty input only
InputsFor(text) ==
    { i \in Inputs : Len(i) <= Cardinality({ k \in DOMAIN text : text[k] = "," }) }

-----------------------------------------------------------------------------
(* main.rs: compile the source, create the VM, run it *)

Init ==
    /\ src \in Sources
    /\ test_input \in InputsFor(src)
    /\ pc = "start"
    /\ stage = "compiled"
    /\ instructions = << >>
    /\ loop_map = EmptyMap
    /\ data = EmptyTape
    /\ in_ptr = 0
    /\ d_ptr = 0
    /\ input = test_input
    /\ output = << >>
    /\ fault = ""
    /\ steps = 0
    /\ saved = << >>
    /\ before = << >>
    /\ history = << >>

\* compile(&src), then VM::new_with_io(program, io)
Compile ==
    /\ pc = "start"
    /\ \E r \in compile(src) :
          /\ instructions' = r.instructions
          /\ loop_map' = r.loop_map
          /\ fault' = r.panic
          /\ pc' = IF r.ok THEN "run" ELSE "abort"
    /\ data' = EmptyTape
    /\ in_ptr' = 0
    /\ d_ptr' = 0
    /\ UNCHANGED << src, test_input, stage, input, output, steps, saved, before, history >>

\* One iteration of the while loop of VM::run
Run ==
    /\ pc = "run"
    /\ in_ptr < Len(instructions)
    /\ steps < (IF stage = "loop" THEN MaxLoopSteps ELSE MaxSteps)
    /\ \E nxt \in Exec(instructions[in_ptr + 1], loop_map, VM) :
          /\ data' = nxt.data
          /\ in_ptr' = nxt.in_ptr
          /\ d_ptr' = nxt.d_ptr
          /\ input' = nxt.input
          /\ output' = nxt.output
          /\ fault' = nxt.fault
          /\ pc' = IF nxt.fault = "" THEN "run" ELSE "panic"
    /\ steps' = steps + 1
    /\ before' = [ins |-> instructions[in_ptr + 1], vm |-> VM]
    /\ UNCHANGED << src, test_input, stage, instructions, loop_map, saved, history >>

\* The while condition of VM::run fails: run returns
Return ==
    /\ pc = "run"
    /\ in_ptr >= Len(instructions)
    /\ pc' = "done"
    /\ UNCHANGED << src, test_input, stage, instructions, loop_map, data, in_ptr,
                    d_ptr, input, output, fault, steps, saved, before, history >>

\* The reference run: a fresh VM on the lexed sequence with no rewrite pass
\* applied, its brackets matched by the same scan, on the same input
RunRaw ==
    /\ stage = "compiled"
    /\ pc \in { "done", "panic" }
    /\ \E r \in CompileWith(<< >>, src) :
          /\ r.ok
          /\ instructions' = r.instructions
          /\ loop_map' = r.loop_map
    /\ saved' = [pc |-> pc, vm |-> VM, steps |-> steps,
                 instructions |-> instructions, loop_map |-> loop_map]
    /\ stage' = "raw"
    /\ pc' = "run"
    /\ data' = EmptyTape
    /\ in_ptr' = 0
    /\ d_ptr' = 0
    /\ input' = test_input
    /\ output' = << >>
    /\ fault' = ""
    /\ steps' = 0
    /\ before' = << >>
    /\ UNCHANGED << src, test_input, history >>

Next == Compile \/ Run \/ Return \/ RunRaw

Spec == Init /\ [][Next]_vars

-----------------------------------------------------------------------------
(* Properties of the pipeline, checked under Spec *)

Compiled == stage = "compiled" /\ pc \in { "run", "done", "panic" }

\* C1: when the run of the raw lexed sequence ends, the run of the compiled
\* Program on the same source and input has ended the same way (returned or
\* panicked), and when both returned they wrote the same output bytes and
\* left the same tape and the same data pointer.
C1_CompiledRunEqualsRawRun ==
    (stage = "raw" /\ pc \in { "done", "panic" }) =>
        /\ saved.pc = pc
        /\ saved.vm.output = output
        /\ pc = "done" => (saved.vm.data = data /\ saved.vm.d_ptr = d_ptr)

\* C2: a Program returned by compile holds no NoOp, no Alt(0) and no
\* Shift(0), and its run never panics at the NoOp arm or the unreachable arm.
C2_NoNoOpReachesTheVM ==
    Compiled =>
        /\ \A i \in DOMAIN instructions : ~IsNoOp(instructions[i])
        /\ fault \notin { "NoOp found in program", "unreachable" }

\* C2's case: the runs of the source summed to a zero delta, and the
\* compiled Program has run to its end.
C2_Witness ==
    /\ stage = "compiled" /\ pc = "done" /\ steps > 0
    /\ \E i \in DOMAIN contraction_optimizer(Lex(src)) :
          IsNoOp(contraction_optimizer(Lex(src))[i])

Brackets == { p \in 0..(Len(instructions) - 1) : instructions[p + 1] \in { Loop, End } }

Opens == { p \in 0..(Len(instructions) - 1) : instructions[p + 1] = Loop }

\* C3: loop_map of a Program returned by compile is defined exactly on the
\* bracket positions of the final sequence, is an involution, maps every
\* open to a later close, and its pairs are properly nested.
C3_LoopMapIsNestedInvolution ==
    Compiled =>
        /\ DOMAIN loop_map = Brackets
        /\ Cardinality(DOMAIN loop_map) = Cardinality(Brackets)
        /\ \A p \in Brackets :
              loop_map[p] \in Brackets /\ loop_map[loop_map[p]] = p
        /\ \A o \in Opens :
              loop_map[o] > o /\ instructions[loop_map[o] + 1] = End
        /\ \A o1, o2 \in Opens :
              o1 < o2 => (loop_map[o1] < o2 \/ loop_map[o2] < loop_map[o1])

\* C3's case: the source of test_bracket_matching compiled, 8 brackets with
\* a nested pair.
C3_Witness ==
    /\ Compiled
    /\ Cardinality(DOMAIN loop_map) = 8
    /\ \E o1, o2 \in Opens : o1 < o2 /\ loop_map[o2] < loop_map[o1]

\* The bracket characters of text up to position n: opens minus closes
RECURSIVE Depth(_, _)
Depth(text, n) ==
    IF n = 0 THEN 0
    ELSE Depth(text, n - 1)
         + (CASE text[n] = "[" -> 1 [] text[n] = "]" -> -1 [] OTHER -> 0)

BalancedText(text) ==
    /\ \A n \in 0..Len(text) : Depth(text, n) >= 0
    /\ Depth(text, Len(text)) = 0

C7_LoopAndEndJump ==
    (stage = "compiled" /\ before # << >> /\ before.ins \in { Loop, End }) =>
        LET i == before.vm.in_ptr
            cell == Cell(before.vm.data, before.vm.d_ptr)
            jump == IF before.ins = Loop THEN cell = 0 ELSE cell # 0
        IN  /\ fault = ""
            /\ instructions[loop_map[i] + 1] = (IF before.ins = Loop THEN End ELSE Loop)
            /\ in_ptr = (IF jump THEN loop_map[i] + 1 ELSE i + 1)
            /\ data = before.vm.data
            /\ d_ptr = before.vm.d_ptr

\* C7's case: an End met with a non-zero cell has jumped back into its loop
C7_Witness ==
    /\ stage = "compiled" /\ before # << >> /\ before.ins = End
    /\ Cell(before.vm.data, before.vm.d_ptr) # 0
    /\ in_ptr <= before.vm.in_ptr

Recognized == { ">", "<", "+", "-", ".", ",", "[", "]" }

Primitive(c) ==
    CASE c = ">" -> Shift(1)
      [] c = "<" -> Shift(-1)
      [] c = "+" -> Alt(1)
      [] c = "-" -> Alt(-1)
      [] c = "." -> Out
      [] c = "," -> In
      [] c = "[" -> Loop
      [] c = "]" -> End

\* C9: the lexer output is the subsequence of the eight command characters
\* of the source, in order, each mapped to its primitive instruction; the
\* raw sequence handed to the executor is that output.
C9_LexerKeepsCommandsInOrder ==
    LET kept == SelectSeq(src, LAMBDA c : c \in Recognized)
        lexed == Lex(src)
    IN  /\ Len(lexed) = Len(kept)
        /\ \A k \in 1..Len(kept) : lexed[k] = Primitive(kept[k])
        /\ stage = "raw" => instructions = lexed

\* C9's case: the source of test_parse, comment characters dropped
C9_Witness ==
    /\ stage = "raw"
    /\ Len(src) > Len(instructions)
    /\ instructions = << Loop, Alt(-1), Shift(1), Alt(1), Shift(-1), End >>

-----------------------------------------------------------------------------
(* One executor step from any executor state: SpecStep *)

StepPointers == { 0, 1, 2, MEM - 2, MEM - 1 }

ShiftCounts == { -2, -1, 1, 2, MEM - 1, MEM, MEM + 1 }

AltAmounts ==
    { -32768, -32767, -257, -256, -255, -128, -2, -1,
      1, 2, 127, 128, 255, 256, 257, 32767 }

CopyMuls == { 0, 1, 2, 3, 128, 255 }

CopyOffsets == { -2, -1, 1, 2, MEM - 1 }

\* Programs of one fused or contracted instruction, as compile returns them
\* for a run of ">" or "<", a run of "+" or "-", ".", ",", "[-]" and a copy loop
StepPrograms ==
    { << Shift(c) >> : c \in ShiftCounts }
    \cup { << Alt(a) >> : a \in AltAmounts }
    \cup { << Copy(m, o), Clear >> : m \in CopyMuls, o \in CopyOffsets }
    \cup { << Out >>, << In >>, << Clear >> }

\* The byte held by the cells of StepPointers other than the current one
OtherBytes == { 0, 1, 200 }

InitStep ==
    /\ src = << >>
    /\ test_input = << >>
    /\ pc = "run"
    /\ stage = "step"
    /\ instructions \in StepPrograms
    /\ loop_map = EmptyMap
    /\ d_ptr \in StepPointers
    /\ \E v \in 0..255 : \E t \in OtherBytes :
          data = SetCell([i \in (IF t = 0 THEN {} ELSE StepPointers) |-> t], d_ptr, v)
    /\ in_ptr = 0
    /\ input \in (IF instructions = << In >> THEN Inputs ELSE { << >> })
    /\ output = << >>
    /\ fault = ""
    /\ steps = 0
    /\ saved = << >>
    /\ before = << >>
    /\ history = << >>

NextStep == Run \/ Return

SpecStep == InitStep /\ [][NextStep]_vars

StepOf(op) == stage = "step" /\ before # << >> /\ before.ins.op = op

\* C5: Shift(d) from pointer p sets the pointer to the non-negative value
\* (p + d) mod MEM and advances in_ptr by 1.
C5_ShiftWrapsModuloTape ==
    StepOf("Shift") =>
        /\ d_ptr = MathMod(before.vm.d_ptr + before.ins.count, MEM)
        /\ in_ptr = before.vm.in_ptr + 1

\* C6: Alt(d), d # 0 in i16, sets the current cell to (v + d) mod 256
\* without panicking and advances in_ptr by 1.
C6_AltWrapsModulo256 ==
    (StepOf("Alt") /\ before.ins.amount # 0 /\ InI16(before.ins.amount)) =>
        /\ fault = ""
        /\ Cell(data, d_ptr)
             = MathMod(Cell(before.vm.data, before.vm.d_ptr) + before.ins.amount, 256)
        /\ in_ptr = before.vm.in_ptr + 1

\* C8: Copy{mul, offset} from pointer p adds tape[p] * mul, modulo 256, to the
\* cell at (p + offset) mod MEM, leaves every other cell and the pointer
\* unchanged and advances in_ptr by 1.
C8_CopyAddsToTargetCell ==
    StepOf("Copy") =>
        LET p == before.vm.d_ptr
            target == MathMod(p + before.ins.offset, MEM)
            old == before.vm.data
        IN  /\ Cell(data, target)
                 = MathMod(Cell(old, target) + Cell(old, p) * before.ins.mul, 256)
            /\ \A i \in (DOMAIN data \cup DOMAIN old) \ {target} :
                  Cell(data, i) = Cell(old, i)
            /\ d_ptr = p
            /\ in_ptr = before.vm.in_ptr + 1

-----------------------------------------------------------------------------
(* The rewrite passes on any instruction sequence: SpecPass *)

PassFragments ==
    { << i >> : i \in { Shift(1), Shift(-1), Alt(1), Alt(-1), Alt(32767),
                        Loop, End, NoOp, Out } }
    \cup { << Loop, Alt(-1), End >>,
           << Loop, Alt(-1), Shift(1), Alt(1), Shift(-1), End >>,
           << Loop, Shift(-1), Alt(2), Shift(1), Alt(-1), End >>,
           << Loop, Alt(-1), Shift(1), Alt(-1), Shift(-1), End >>,
           << Loop, Alt(-1), Shift(1), Alt(1), Shift(1), End >>,
           << Loop, Alt(-1), Shift(1), Alt(256), Shift(-1), End >> }

PassInputs == Concats(PassFragments, MaxPassFrags)

InitPass ==
    /\ src = << >>
    /\ test_input = << >>
    /\ pc = "pass"
    /\ stage = "pass"
    /\ instructions \in PassInputs
    /\ loop_map = EmptyMap
    /\ data = EmptyTape
    /\ in_ptr = 0
    /\ d_ptr = 0
    /\ input = << >>
    /\ output = << >>
    /\ fault = ""
    /\ steps = 0
    /\ saved = << >>
    /\ before = << >>
    /\ history = << >>

\* optimizer.optimize(instructions): the result, or the panic of a debug build
Rewrite ==
    /\ pc = "pass"
    /\ Len(history) < 2
    /\ \E optimizer \in { get_optimizers[i] : i \in DOMAIN get_optimizers } :
          /\ history' = Append(history, [optimizer |-> optimizer, input |-> instructions])
          /\ \E panics \in { FALSE } \cup { optimizer = "Contraction"
                                             /\ contraction_overflows(instructions) } :
                /\ pc' = IF panics THEN "abort" ELSE "pass"
                /\ fault' = IF panics THEN "attempt to add with overflow" ELSE ""
                /\ instructions' = IF panics THEN << >> ELSE optimize(optimizer, instructions)
    /\ UNCHANGED << src, test_input, stage, loop_map, data, in_ptr, d_ptr, input,
                    output, steps, saved, before >>

NextPass == Rewrite

SpecPass == InitPass /\ [][NextPass]_vars

\* C10: each rewrite pass applied to its own output returns that output
C10_PassesAreIdempotent ==
    (pc = "pass" /\ Len(history) = 2 /\ history[1].optimizer = history[2].optimizer) =>
        instructions = history[2].input

\* C10's case: Contraction summed a run on its first application and was
\* applied again to what it returned
C10_Witness ==
    /\ pc = "pass" /\ Len(history) = 2
    /\ history[1].optimizer = "Contraction" /\ history[2].optimizer = "Contraction"
    /\ history[1].input # history[2].input
    /\ Len(history[2].input) >= 2

\* The pass applied last and the sequence it was applied to
LastPass == history[Len(history)]

\* C11: every rewrite pass returns an instruction sequence for every
\* instruction sequence it is given; none aborts, the pass that sums a run of
\* deltas included
C11_PassesAreTotal ==
    stage = "pass" => pc # "abort"

\* The maximal runs of Shift and of Alt merged from the left, each into one
\* instruction carrying the sum of the run, everything else kept in place
RECURSIVE MergeRuns(_, _)
MergeRuns(out, ins) ==
    IF ins = << >> THEN out
    ELSE LET x == Head(ins)
             n == Len(out)
         IN  IF n > 0 /\ IsShift(x) /\ IsShift(out[n])
             THEN MergeRuns([out EXCEPT ![n] = Shift(out[n].count + x.count)], Tail(ins))
             ELSE IF n > 0 /\ IsAlt(x) /\ IsAlt(out[n])
             THEN MergeRuns([out EXCEPT ![n] = Alt(out[n].amount + x.amount)], Tail(ins))
             ELSE MergeRuns(Append(out, x), Tail(ins))

\* C14: Contraction replaces every maximal run of Shift, and every maximal run
\* of Alt, by one instruction whose delta is the sum of the run's deltas, keeps
\* every other instruction in place, and returns no two adjacent Shift and no
\* two adjacent Alt
C14_ContractionSumsEachRun ==
    (stage = "pass" /\ Len(history) >= 1 /\ LastPass.optimizer = "Contraction") =>
        /\ pc = "pass"
        /\ instructions = MergeRuns(<< >>, LastPass.input)
        /\ \A i \in 1..(Len(instructions) - 1) :
              /\ ~(IsShift(instructions[i]) /\ IsShift(instructions[i + 1]))
              /\ ~(IsAlt(instructions[i]) /\ IsAlt(instructions[i + 1]))

\* s read from the left, each window [Loop, Alt(-1), End] replaced by Clear
RECURSIVE ReplaceClearWindows(_)
ReplaceClearWindows(s) ==
    IF s = << >> THEN << >>
    ELSE IF Len(s) >= 3 /\ SubSeq(s, 1, 3) = << Loop, Alt(-1), End >>
    THEN << Clear >> \o ReplaceClearWindows(SubSeq(s, 4, Len(s)))
    ELSE << Head(s) >> \o ReplaceClearWindows(Tail(s))

HasClearWindow(s) ==
    \E i \in 1..(Len(s) - 2) : SubSeq(s, i, i + 2) = << Loop, Alt(-1), End >>

\* C15: ClearLoop replaces each window [Loop, Alt(-1), End] by a single Clear,
\* keeps every instruction outside the windows as it was, and returns a
\* sequence with no such window
C15_ClearLoopFoldsEachWindow ==
    (stage = "pass" /\ pc = "pass" /\ Len(history) >= 1
     /\ LastPass.optimizer = "ClearLoop") =>
        /\ instructions = ReplaceClearWindows(LastPass.input)
        /\ ~HasClearWindow(instructions)

\* C15's case: ClearLoop folded a window that stood among other instructions
C15_Witness ==
    /\ stage = "pass" /\ pc = "pass" /\ Len(history) >= 1
    /\ LastPass.optimizer = "ClearLoop"
    /\ HasClearWindow(LastPass.input)
    /\ Len(LastPass.input) > 3
    /\ \E i \in 1..Len(instructions) : instructions[i] = Clear
    /\ \E i \in 1..Len(instructions) : instructions[i] # Clear

\* The decrement first: [Loop, Alt(-1), Shift(o), Alt(x), Shift(-o), End], x > 0
DecrementFirst(w) ==
    /\ Len(w) = 6 /\ w[1] = Loop /\ w[6] = End /\ w[2] = Alt(-1)
    /\ w[3].op = "Shift" /\ w[4].op = "Alt" /\ w[4].amount > 0
    /\ w[5] = Shift(0 - w[3].count)

\* The decrement last: [Loop, Shift(o), Alt(x), Shift(-o), Alt(-1), End], x > 0
DecrementLast(w) ==
    /\ Len(w) = 6 /\ w[1] = Loop /\ w[6] = End /\ w[5] = Alt(-1)
    /\ w[2].op = "Shift" /\ w[3].op = "Alt" /\ w[3].amount > 0
    /\ w[4] = Shift(0 - w[2].count)

HasCopyWindow(s) ==
    \E i \in 1..(Len(s) - 5) :
        DecrementFirst(SubSeq(s, i, i + 5)) \/ DecrementLast(SubSeq(s, i, i + 5))

\* s read from the left, each copy loop replaced by Copy, Clear; the
\* multiplier is x, or x modulo 256 when truncate is TRUE
RECURSIVE ReplaceCopyWindows(_, _)
ReplaceCopyWindows(s, truncate) ==
    IF s = << >> THEN << >>
    ELSE IF Len(s) >= 6 /\ DecrementFirst(SubSeq(s, 1, 6))
    THEN << Copy(IF truncate THEN s[4].amount % 256 ELSE s[4].amount, s[3].count),
            Clear >>
         \o ReplaceCopyWindows(SubSeq(s, 7, Len(s)), truncate)
    ELSE IF Len(s) >= 6 /\ DecrementLast(SubSeq(s, 1, 6))
    THEN << Copy(IF truncate THEN s[3].amount % 256 ELSE s[3].amount, s[2].count),
            Clear >>
         \o ReplaceCopyWindows(SubSeq(s, 7, Len(s)), truncate)
    ELSE << Head(s) >> \o ReplaceCopyWindows(Tail(s), truncate)

-----------------------------------------------------------------------------
(* The executor over whole runs *)

Running == stage \in { "compiled", "raw", "step" } /\ pc \in { "run", "done", "panic" }

LoopFree == \A i \in 1..Len(instructions) : instructions[i] \notin { Loop, End }

\* C12: the executor has returned only with in_ptr >= Len(instructions), and
\* in every other state it takes a step unless In finds no input; a Program
\* with no Loop and no End returns after exactly Len(instructions) steps; the
\* Program of "+[]" never returns: its End on a non-zero cell steps to the
\* state it was in
C12_RunsUntilTheEnd ==
    Running =>
        /\ pc = "done" => in_ptr >= Len(instructions)
        /\ pc = "panic" => (before.ins = In /\ before.vm.input = << >>)
        /\ (LoopFree /\ pc # "panic") =>
              /\ in_ptr = steps
              /\ pc = "done" => steps = Len(instructions)
        /\ src = << "+", "[", "]" >> =>
              /\ pc = "run"
              /\ in_ptr < Len(instructions)
              /\ (before # << >> /\ before.ins = End) => VM = before.vm

\* The number of bytes the run has taken from the input queue before the
\* last step
Consumed == Len(test_input) - Len(before.vm.input)

\* C13: over a run on the input queue test_input, each Out appends the byte of
\* the current cell to the end of the output and touches nothing else, the
\* k-th In stores the k-th byte of test_input in the current cell, and an In
\* that finds the queue empty panics and leaves the tape as it was
C13_IoIsFirstInFirstOut ==
    (stage \in { "compiled", "raw" } /\ pc \in { "run", "done", "panic" }) =>
        /\ input = SubSeq(test_input, Len(test_input) - Len(input) + 1, Len(test_input))
        /\ before # << >> =>
              /\ before.ins = Out =>
                    /\ output = Append(before.vm.output,
                                       Cell(before.vm.data, before.vm.d_ptr))
                    /\ data = before.vm.data /\ d_ptr = before.vm.d_ptr
                    /\ pc # "panic"
              /\ before.ins # Out => output = before.vm.output
              /\ (before.ins = In /\ before.vm.input # << >>) =>
                    /\ Cell(data, d_ptr) = test_input[Consumed + 1]
                    /\ Len(input) = Len(before.vm.input) - 1
                    /\ \A i \in (DOMAIN data \cup DOMAIN before.vm.data) \ { d_ptr } :
                          Cell(data, i) = Cell(before.vm.data, i)
                    /\ d_ptr = before.vm.d_ptr
                    /\ pc # "panic"
              /\ (before.ins = In /\ before.vm.input = << >>) =>
                    /\ pc = "panic"
                    /\ data = before.vm.data
              /\ before.ins # In => input = before.vm.input

\* C13's case: the second In of a run took the second of two different bytes
\* after an Out had printed the first
C13_Witness ==
    /\ stage = "compiled" /\ pc = "run"
    /\ before # << >> /\ before.ins = In
    /\ Len(test_input) = 2 /\ test_input[1] # test_input[2] /\ test_input[1] # 0
    /\ input = << >>
    /\ output = << test_input[1] >>
    /\ Cell(data, d_ptr) = test_input[2]

\* C19: while a compiled Program runs, the data pointer and the cell Copy
\* writes to are in 0..MEM-1 and every cell holds a value in 0..255, so no
\* step reads or writes outside the tape
C19_TapeAccessInBounds ==
    (stage = "compiled" /\ pc \in { "run", "done", "panic" }) =>
        /\ d_ptr \in 0..(MEM - 1)
        /\ DOMAIN data \subseteq 0..(MEM - 1)
        /\ \A i \in DOMAIN data : data[i] \in 0..255
        /\ (pc = "run" /\ in_ptr < Len(instructions)
            /\ instructions[in_ptr + 1].op = "Copy") =>
              UsizeMod(d_ptr + instructions[in_ptr + 1].offset, MEM) \in 0..(MEM - 1)

\* C19's case: Copy, at the first cell with a negative offset, wrote a
\* non-zero byte to its target
C19_Witness ==
    /\ stage = "compiled" /\ pc = "run"
    /\ before # << >> /\ before.ins.op = "Copy"
    /\ before.vm.d_ptr + before.ins.offset < 0
    /\ data # before.vm.data

\* C20: while a compiled Program runs, 0 <= in_ptr <= Len(instructions),
\* loop_map is defined at the position of every Loop and End, and the position
\* a Loop or End continues at after its jump is at most Len(instructions)
C20_InstructionPointerInBounds ==
    (stage = "compiled" /\ pc \in { "run", "done", "panic" }) =>
        /\ in_ptr \in 0..Len(instructions)
        /\ \A p \in 0..(Len(instructions) - 1) :
              instructions[p + 1] \in { Loop, End } =>
                 /\ p \in DOMAIN loop_map
                 /\ loop_map[p] + 1 \in 0..Len(instructions)

\* C20's case: an End on a non-zero cell jumped back into its loop
C20_Witness ==
    /\ stage = "compiled" /\ pc = "run"
    /\ before # << >> /\ before.ins = End
    /\ Cell(before.vm.data, before.vm.d_ptr) # 0
    /\ in_ptr = loop_map[before.vm.in_ptr] + 1
    /\ in_ptr < before.vm.in_ptr

-----------------------------------------------------------------------------
(* The loops the fold passes replace, run from any state: SpecLoop *)

ClearLoopProgram == << Loop, Alt(-1), End >>

LoopOffsets == { -1, 1 }

LoopAmounts == { 1, 3 }

CopyLoopPrograms ==
    { << Loop, Alt(-1), Shift(o), Alt(x), Shift(0 - o), End >> :
        o \in LoopOffsets, x \in LoopAmounts }
    \cup { << Loop, Shift(o), Alt(x), Shift(0 - o), Alt(-1), End >> :
        o \in LoopOffsets, x \in LoopAmounts }

LoopPointers == { 0, MEM - 1 }

\* The cells given a byte before the loop starts, next to the current one
LoopCells == { 0, 1, MEM - 2, MEM - 1 }

\* The bytes the current cell holds when a copy loop starts
CopyLoopBytes == { 0, 1, 2, 100 }

InitLoop ==
    /\ src = << >>
    /\ test_input = << >>
    /\ pc = "run"
    /\ stage = "loop"
    /\ instructions \in { ClearLoopProgram } \cup CopyLoopPrograms
    /\ loop_map = MatchLoops(instructions, 0, MatchStart).map
    /\ d_ptr \in LoopPointers
    /\ \E v \in (IF instructions = ClearLoopProgram THEN 0..255 ELSE CopyLoopBytes) :
       \E t \in OtherBytes :
          data = SetCell([i \in (IF t = 0 THEN {} ELSE LoopCells) |-> t], d_ptr, v)
    /\ in_ptr = 0
    /\ input = << >>
    /\ output = << >>
    /\ fault = ""
    /\ steps = 0
    /\ saved = VM
    /\ before = << >>
    /\ history = << >>

NextLoop == Run \/ Return

SpecLoop == InitLoop /\ [][NextLoop]_vars

\* The byte of the current cell when the loop started
StartByte == Cell(saved.data, saved.d_ptr)

\* What CopyLoop puts in the place of the loop: Copy, then Clear
Folded == copy_loop_optimizer(instructions)

\* The state after Copy and Clear, run from the state the loop started in
AfterFolded == ExecClear(ExecCopy(saved, Folded[1].mul, Folded[1].offset))

\* C17: a copy loop started with the current cell p holding v returns after v
\* iterations, and the tape, the data pointer and the I/O buffers are then
\* those reached by Copy followed by Clear from the same state: cell p holds 0,
\* the cell (p + o) mod MEM holds its old byte plus v * x modulo 256, every
\* other cell and the pointer are as before
C17_CopyLoopEqualsCopyClear ==
    (stage = "loop" /\ instructions \in CopyLoopPrograms) =>
        /\ pc # "panic"
        /\ steps <= 1 + 5 * StartByte
        /\ (pc = "run" /\ steps = 1 + 5 * StartByte) => in_ptr >= Len(instructions)
        /\ pc = "done" =>
              /\ Len(Folded) = 2 /\ Folded[1].op = "Copy" /\ Folded[2] = Clear
              /\ data = AfterFolded.data
              /\ d_ptr = AfterFolded.d_ptr
              /\ input = AfterFolded.input
              /\ output = AfterFolded.output
              /\ d_ptr = saved.d_ptr
              /\ LET target == MathMod(saved.d_ptr + Folded[1].offset, MEM)
                 IN  /\ Cell(data, saved.d_ptr) = 0
                     /\ Cell(data, target)
                          = MathMod(Cell(saved.data, target)
                                    + StartByte * Folded[1].mul, 256)
                     /\ \A i \in (DOMAIN data \cup DOMAIN saved.data)
                                 \ { target, saved.d_ptr } :
                           Cell(data, i) = Cell(saved.data, i)

\* C18: the loop [Loop, Alt(-1), End] started with the current cell holding v
\* returns after v iterations, at most 255, with that cell 0 and everything
\* else as it was: the state Clear reaches in one step, in_ptr apart
C18_ClearLoopEqualsClear ==
    (stage = "loop" /\ instructions = ClearLoopProgram) =>
        /\ pc # "panic"
        /\ steps <= 1 + 2 * StartByte
        /\ (pc = "run" /\ steps = 1 + 2 * StartByte) => in_ptr >= Len(instructions)
        /\ pc = "done" =>
              /\ [VM EXCEPT !.in_ptr = 0] = [ExecClear(saved) EXCEPT !.in_ptr = 0]
              /\ ExecClear(saved).in_ptr = saved.in_ptr + 1
              /\ Cell(data, d_ptr) = 0
              /\ d_ptr = saved.d_ptr
              /\ \A i \in (DOMAIN data \cup DOMAIN saved.data) \ { d_ptr } :
                    Cell(data, i) = Cell(saved.data, i)

\* C18's case: the loop returned after 255 iterations
C18_Witness ==
    /\ stage = "loop" /\ instructions = ClearLoopProgram /\ pc = "done"
    /\ StartByte = 255
    /\ steps = 511
    /\ data # saved.data

\* C21: in every state of a run the instruction sequence and loop_map are
\* those the Program was created with; Shift, Out, Loop and End change no
\* cell; Alt, Clear and In change at most the cell at the data pointer; only
\* Shift changes the data pointer
C21_StepsKeepProgramAndFrame ==
    (stage \in { "compiled", "raw" } /\ pc \in { "run", "done", "panic" }) =>
        /\ \E r \in CompileWith(IF stage = "compiled" THEN get_optimizers ELSE << >>,
                                src) :
              r.ok /\ instructions = r.instructions /\ loop_map = r.loop_map
        /\ before # << >> =>
              /\ before.ins.op \in { "Shift", "Out", "Loop", "End" } =>
                    data = before.vm.data
              /\ before.ins.op \in { "Alt", "Clear", "In" } =>
                    \A i \in (DOMAIN data \cup DOMAIN before.vm.data)
                             \ { before.vm.d_ptr } :
                       Cell(data, i) = Cell(before.vm.data, i)
              /\ before.ins.op # "Shift" => d_ptr = before.vm.d_ptr

\* C21's case: In changed the current cell of a tape that held another
\* non-zero cell, after the pointer had moved
C21_Witness ==
    /\ stage = "compiled" /\ pc = "run"
    /\ before # << >> /\ before.ins = In
    /\ data # before.vm.data
    /\ d_ptr # 0
    /\ \E i \in DOMAIN data : i # d_ptr

\* The Loop and End instructions of s up to position n: opens minus closes
RECURSIVE InsDepth(_, _)
InsDepth(s, n) ==
    IF n = 0 THEN 0
    ELSE InsDepth(s, n - 1)
         + (CASE s[n] = Loop -> 1 [] s[n] = End -> -1 [] OTHER -> 0)

Balanced(s) ==
    /\ \A n \in 0..Len(s) : InsDepth(s, n) >= 0
    /\ InsDepth(s, Len(s)) = 0

\* C22: every rewrite pass, on every instruction sequence, returns a sequence
\* whose Loop and End are balanced exactly when those of its input are, so
\* that no pass decides whether compile aborts
C22_PassesKeepBracketBalance ==
    (stage = "pass" /\ Len(history) >= 1) =>
        /\ pc = "pass"
        /\ Balanced(instructions) <=> Balanced(LastPass.input)

=============================================================================
